---- MODULE Spec2Model ----
(***************************************************************************)
(* A model of the hockey helpers (src/hockey/helper.py) and of the NASA    *)
(* paginated menu (src/nasa/menus.py).                                      *)
(*                                                                         *)
(* The two files hold six independent pieces of state, each with its own  *)
(* specification over the shared variable tuple:                           *)
(*   SpecMenu        BaseMenu and its buttons                              *)
(*   SpecPlayers     PlayerFinder's players.json cache, calls interleaved  *)
(*   SpecPlayersSeq  the same, one call at a time                          *)
(*   SpecTeams       get_team, calls interleaved at their await points     *)
(*   SpecTeamsSeq    get_team, one call at a time                          *)
(*   SpecChannel     get_channel_obj                                       *)
(*   SpecRoles       get_team_role                                         *)
(*   SpecTeamFinder  TeamFinder.convert / transform                        *)
(***************************************************************************)
EXTENDS Integers, Sequences, FiniteSets, TLC

VARIABLES
    \* ---- BaseMenu (src/nasa/menus.py)
    max_pages,      \* self._source.get_max_pages()
    current_page,   \* self.current_page
    shown_page,     \* the page the message currently displays
    stopped,        \* self.view.stop() was called
    owner_ids,      \* self.ctx.bot.owner_ids
    author,         \* self.ctx.author.id
    lastPress,      \* the last interaction dispatched to the view
    \* ---- PlayerFinder (src/hockey/helper.py)
    clock,          \* datetime.utcnow(), in ticks
    tz,             \* the host's local UTC offset, in seconds
    player_db,      \* cog.config.player_db, whole seconds
    file,           \* players.json: "absent", "empty" or "complete"
    lastRefresh,    \* `now` of the last call that stored player_db (0: none)
    calls,          \* the PlayerFinder calls in flight
    \* ---- get_team (src/hockey/helper.py)
    teams,          \* config.teams: None, or the stored list of entries
    teams0,         \* the stored list before any call
    requested,      \* the team names of the calls that have returned
    teamCalls,      \* the get_team calls in flight
    \* ---- get_channel_obj (src/hockey/helper.py)
    chan_kind,      \* what each channel id is on Discord: "text", "thread", "none"
    bot_guilds,     \* the guilds bot.get_guild can find
    chan_config,    \* config.channel_from_id(id): its stored data
    lastChannelCall,\* the last get_channel_obj call and what it did
    \* ---- get_team_role (src/hockey/helper.py)
    roles,          \* guild.roles, in order
    lastRoleCall,   \* the last get_team_role call and its result
    \* ---- TeamFinder (src/hockey/helper.py)
    lastConvert     \* the last TeamFinder call and its outcome

menuVars == <<max_pages, current_page, shown_page, stopped, owner_ids, author, lastPress>>

playerVars == <<clock, tz, player_db, file, lastRefresh, calls>>

teamVars == <<teams, teams0, requested, teamCalls>>

chanVars == <<chan_kind, bot_guilds, chan_config, lastChannelCall>>

roleVars == <<roles, lastRoleCall>>

finderVars == <<lastConvert>>

vars == <<menuVars, playerVars, teamVars, chanVars, roleVars, finderVars>>

(***************************************************************************)
(* BaseMenu                                                                *)
(***************************************************************************)
MaxPages == 3
MaxUsers == 3

Users == 1..MaxUsers

\* Python's None in the integer slot get_max_pages() returns.
PagesNone == 0 - 1

NoPress == [user |-> 0, button |-> "none", allowed |-> FALSE, prev |-> 0, response |-> "none"]

\* BaseMenu.__init__ followed by start(): current_page = page_start, and
\* send_initial_message has fetched page_start from the source, so it is a
\* page of the source.
MenuInit ==
    /\ max_pages \in 1..MaxPages
    /\ current_page \in 0..(max_pages - 1)
    /\ shown_page = current_page
    /\ stopped = FALSE
    /\ owner_ids \in SUBSET Users
    /\ author \in Users
    /\ lastPress = NoPress

MenuIdle ==
    /\ max_pages = 1
    /\ current_page = 0
    /\ shown_page = 0
    /\ stopped = FALSE
    /\ owner_ids = {}
    /\ author = 1
    /\ lastPress = NoPress

\* interaction_check letting only the author through.
interaction_check_author_only(user) == user = author

\* BaseMenu.interaction_check: True for an owner or the invoking author.
interaction_check(user) == user \in (owner_ids \cup {author})

\* self._source.get_page(page_number) of a list source: IndexError outside
\* the pages of the source.
get_page_ok(page_number) == page_number >= 0 /\ page_number < max_pages

\* BaseMenu.show_page: fetch the page, make it current, edit the message.
\* An IndexError of get_page leaves everything as it was.
show_page(page_number) ==
    IF get_page_ok(page_number)
    THEN /\ current_page' = page_number
         /\ shown_page' = page_number
    ELSE UNCHANGED <<current_page, shown_page>>

\* show_checked_page with its first comparison off by one.
checked_page_off_by_one(page_number) ==
    IF max_pages = PagesNone THEN page_number
    ELSE IF page_number > max_pages THEN 0
    ELSE IF page_number < 0 THEN max_pages - 1
    ELSE page_number

\* BaseMenu.show_checked_page: the page number handed to show_page.
checked_page(page_number) ==
    IF max_pages = PagesNone THEN page_number
    ELSE IF page_number >= max_pages THEN 0
    ELSE IF page_number < 0 THEN max_pages - 1
    ELSE page_number

show_checked_page(page_number) == show_page(checked_page(page_number))

\* The view dispatches an interaction: interaction_check first, the button's
\* callback only when it returned True; otherwise the ephemeral refusal.
Dispatch(user, button, callback) ==
    /\ ~stopped
    /\ lastPress' = [user |-> user, button |-> button,
                     allowed |-> interaction_check(user), prev |-> current_page,
                     response |-> IF interaction_check(user)
                                  THEN "callback" ELSE "not_authorized_ephemeral"]
    /\ IF interaction_check(user)
       THEN callback
       ELSE UNCHANGED <<current_page, shown_page, stopped>>
    /\ UNCHANGED <<max_pages, owner_ids, author>>

ForwardButton(user) ==
    Dispatch(user, "forward",
             show_checked_page(current_page + 1) /\ UNCHANGED stopped)

BackButton(user) ==
    Dispatch(user, "back",
             show_checked_page(current_page - 1) /\ UNCHANGED stopped)

FirstItemButton(user) ==
    Dispatch(user, "first", show_page(0) /\ UNCHANGED stopped)

LastItemButton(user) ==
    Dispatch(user, "last", show_page(max_pages - 1) /\ UNCHANGED stopped)

StopButton(user) ==
    Dispatch(user, "stop", stopped' = TRUE /\ UNCHANGED <<current_page, shown_page>>)

(***************************************************************************)
(* PlayerFinder: the players.json cache                                    *)
(*                                                                         *)
(* Time is counted in ticks, TicksPerSecond to the second, so that the     *)
(* whole-second timestamp the code stores differs from the clock reading   *)
(* it was taken from.  A day is DaySeconds seconds long.                   *)
(***************************************************************************)
TicksPerSecond == 2
DaySeconds == 2
MaxCalls == 2

Procs == 1..MaxCalls

\* timedelta(days=1), in ticks
Day == DaySeconds * TicksPerSecond

\* The host's offsets from UTC, in seconds.
TzOffsets == {0, 1}

\* The clock starts late enough for the default player_db (0) to be stale.
StartTime == (DaySeconds + 2) * TicksPerSecond
MaxTime == StartTime + Day + TicksPerSecond + 1

\* int(x) of a float x given in ticks: truncation toward zero, in seconds.
int(x) == IF x >= 0 THEN x \div TicksPerSecond ELSE 0 - ((0 - x) \div TicksPerSecond)

\* naive.timestamp(): a naive datetime is read as local time.
timestamp(naive) == naive - tz * TicksPerSecond

\* datetime.fromtimestamp(seconds): the naive local time, in ticks.
fromtimestamp(seconds) == (seconds + tz) * TicksPerSecond

IdleCall == [pc |-> "idle", now |-> 0, saved |-> 0, existed |-> FALSE, ref |-> 0,
             http |-> FALSE, rewrote |-> FALSE, stored |-> FALSE, read |-> "none"]

PlayersInit ==
    /\ clock = StartTime
    /\ tz \in TzOffsets
    /\ player_db = 0
    /\ file = "absent"
    /\ lastRefresh = 0
    /\ calls = [p \in Procs |-> IdleCall]

PlayersIdle ==
    /\ clock = StartTime
    /\ tz = 0
    /\ player_db = 0
    /\ file = "absent"
    /\ lastRefresh = 0
    /\ calls = [p \in Procs |-> IdleCall]

\* The freshness test refreshing already at exactly one day.
needs_refresh_at_one_day(now, saved, exists) == (now - saved) >= Day \/ ~exists

\* (now - saved) > timedelta(days=1) or not path.exists()
needs_refresh(now, saved, exists) == (now - saved) > Day \/ ~exists

\* with path.open(mode="r") as f: json.loads(f.read())["data"]
ReadPlayers(c) ==
    [c EXCEPT !.read = IF file = "absent" THEN "missing" ELSE file,
              !.pc = IF file = "complete" THEN "done" ELSE "raised"]

\* now = datetime.utcnow(); then the call awaits cog.config.player_db()
PlayerFinder_begin(p) ==
    /\ calls[p].pc = "idle"
    /\ calls' = [calls EXCEPT ![p] = [IdleCall EXCEPT !.pc = "config_get", !.now = clock]]
    /\ UNCHANGED <<clock, tz, player_db, file, lastRefresh>>

\* saved = datetime.fromtimestamp(<player_db>); the freshness test; a call
\* that skips the refresh goes on to read the file without awaiting.
PlayerFinder_check(p) ==
    /\ calls[p].pc = "config_get"
    /\ LET saved == fromtimestamp(player_db)
           exists == file # "absent"
           c == [calls[p] EXCEPT !.saved = saved, !.existed = exists, !.ref = lastRefresh]
       IN  calls' = [calls EXCEPT ![p] =
                IF needs_refresh(c.now, saved, exists)
                THEN [c EXCEPT !.pc = "http_get", !.http = TRUE]
                ELSE ReadPlayers(c)]
    /\ UNCHANGED <<clock, tz, player_db, file, lastRefresh>>

\* session.get(...) answers: path.open(mode="w") truncates players.json, and
\* the call awaits resp.json() with the file open.
PlayerFinder_get_ok(p) ==
    /\ calls[p].pc = "http_get"
    /\ file' = "empty"
    /\ calls' = [calls EXCEPT ![p].pc = "resp_json", ![p].rewrote = TRUE]
    /\ UNCHANGED <<clock, tz, player_db, lastRefresh>>

\* session.get(...) raises: the call ends before the file is opened.
PlayerFinder_get_fail(p) ==
    /\ calls[p].pc = "http_get"
    /\ calls' = [calls EXCEPT ![p].pc = "raised"]
    /\ UNCHANGED <<clock, tz, player_db, file, lastRefresh>>

\* resp.json() returns: json.dump writes the response; the call then awaits
\* cog.config.player_db.set(...).
PlayerFinder_json_ok(p) ==
    /\ calls[p].pc = "resp_json"
    /\ file' = "complete"
    /\ calls' = [calls EXCEPT ![p].pc = "config_set"]
    /\ UNCHANGED <<clock, tz, player_db, lastRefresh>>

\* resp.json() raises: the with block closes the file as it is.
PlayerFinder_json_fail(p) ==
    /\ calls[p].pc = "resp_json"
    /\ calls' = [calls EXCEPT ![p].pc = "raised"]
    /\ UNCHANGED <<clock, tz, player_db, file, lastRefresh>>

\* The value handed to player_db.set.
stored_timestamp(now) == int(timestamp(now))

\* await cog.config.player_db.set(int(now.timestamp()))
PlayerFinder_set(p) ==
    /\ calls[p].pc = "config_set"
    /\ player_db' = stored_timestamp(calls[p].now)
    /\ lastRefresh' = calls[p].now
    /\ calls' = [calls EXCEPT ![p].pc = "open_read", ![p].stored = TRUE]
    /\ UNCHANGED <<clock, tz, file>>

\* After the refresh: read players.json.
PlayerFinder_read(p) ==
    /\ calls[p].pc = "open_read"
    /\ calls' = [calls EXCEPT ![p] = ReadPlayers(calls[p])]
    /\ UNCHANGED <<clock, tz, player_db, file, lastRefresh>>

\* The call returns its players, or its exception reaches the caller.
PlayerFinder_return(p) ==
    /\ calls[p].pc \in {"done", "raised"}
    /\ calls' = [calls EXCEPT ![p] = IdleCall]
    /\ UNCHANGED <<clock, tz, player_db, file, lastRefresh>>

\* Time passes.
Tick ==
    /\ clock < MaxTime
    /\ clock' = clock + 1
    /\ UNCHANGED <<tz, player_db, file, lastRefresh, calls>>

\* players.json is removed from the cog's data directory while no call has
\* it open for writing.
RemoveFile ==
    /\ file # "absent"
    /\ \A p \in Procs : calls[p].pc # "resp_json"
    /\ file' = "absent"
    /\ UNCHANGED <<clock, tz, player_db, lastRefresh, calls>>

(***************************************************************************)
(* get_team: the stored list of team entries                               *)
(***************************************************************************)
MaxTeamCalls == 2
MaxStoredTeams == 1

TeamProcs == 1..MaxTeamCalls

TeamNames == {"Boston Bruins", "Dallas Stars", "Seattle Kraken"}

\* TeamEntry("Null", team, 0, [], {}, [], "").to_json(), as far as get_team
\* reads it: the entry's team_name.
TeamEntry(team) == [team_name |-> team]

\* config.teams holds None or a list.
NoneTeams == [is_none |-> TRUE, list |-> <<>>]
StoredTeams(list) == [is_none |-> FALSE, list |-> list]

NoDuplicates(list) ==
    \A i, j \in 1..Len(list) : list[i].team_name = list[j].team_name => i = j

\* The lists the store can hold before any call: no name twice.
StoredLists ==
    {l \in UNION {[1..n -> {TeamEntry(t) : t \in TeamNames}] : n \in 0..MaxStoredTeams} :
        NoDuplicates(l)}

IdleTeamCall == [pc |-> "idle", team |-> "", team_list |-> <<>>, pre |-> NoneTeams,
                 ret |-> "", writes |-> 0]

TeamsInit ==
    /\ teams \in {NoneTeams} \cup {StoredTeams(l) : l \in StoredLists}
    /\ teams0 = teams
    /\ requested = {}
    /\ teamCalls = [p \in TeamProcs |-> IdleTeamCall]

TeamsIdle ==
    /\ teams = NoneTeams
    /\ teams0 = NoneTeams
    /\ requested = {}
    /\ teamCalls = [p \in TeamProcs |-> IdleTeamCall]

\* The loop of get_team never finding the entry.
find_team_never(team, team_list) == 0

\* for teams in team_list: if team == teams["team_name"]: the first index
\* that matches, 0 when the loop runs out.
find_team(team, team_list) ==
    IF \E i \in 1..Len(team_list) : team_list[i].team_name = team
    THEN CHOOSE i \in 1..Len(team_list) :
            /\ team_list[i].team_name = team
            /\ \A j \in 1..(i - 1) : team_list[j].team_name # team
    ELSE 0

\* get_team is called: config = ...; the call awaits config.teams().
get_team_begin(p, team) ==
    /\ teamCalls[p].pc = "idle"
    /\ teamCalls' = [teamCalls EXCEPT ![p] = [IdleTeamCall EXCEPT !.pc = "config_get",
                                                                  !.team = team]]
    /\ UNCHANGED <<teams, teams0, requested>>

\* team_list = <the stored value>.  None: a fresh list with the entry, and
\* the call awaits config.teams.set.  Otherwise the loop: a match returns the
\* stored entry, no match appends one and awaits config.teams.set.
get_team_read(p) ==
    /\ teamCalls[p].pc = "config_get"
    /\ LET c == [teamCalls[p] EXCEPT !.pre = teams]
       IN  teamCalls' = [teamCalls EXCEPT ![p] =
                IF teams.is_none
                THEN [c EXCEPT !.team_list = <<TeamEntry(c.team)>>, !.pc = "config_set_none"]
                ELSE IF find_team(c.team, teams.list) # 0
                THEN [c EXCEPT !.team_list = teams.list, !.pc = "done",
                               !.ret = teams.list[find_team(c.team, teams.list)].team_name]
                ELSE [c EXCEPT !.team_list = Append(teams.list, TeamEntry(c.team)),
                               !.pc = "config_set"]]
    /\ requested' = IF ~teams.is_none /\ find_team(teamCalls[p].team, teams.list) # 0
                    THEN requested \cup {teamCalls[p].team} ELSE requested
    /\ UNCHANGED <<teams, teams0>>

\* The None branch: config.teams.set(team_list) completes; the loop over the
\* local list then finds the entry (or, finding none, appends and awaits a
\* second set).
get_team_set_none(p) ==
    /\ teamCalls[p].pc = "config_set_none"
    /\ teams' = StoredTeams(teamCalls[p].team_list)
    /\ LET c == [teamCalls[p] EXCEPT !.writes = @ + 1]
       IN  IF find_team(c.team, c.team_list) # 0
           THEN /\ teamCalls' = [teamCalls EXCEPT ![p] =
                       [c EXCEPT !.pc = "done",
                                 !.ret = c.team_list[find_team(c.team, c.team_list)].team_name]]
                /\ requested' = requested \cup {c.team}
           ELSE /\ teamCalls' = [teamCalls EXCEPT ![p] =
                       [c EXCEPT !.pc = "config_set",
                                 !.team_list = Append(c.team_list, TeamEntry(c.team))]]
                /\ UNCHANGED requested
    /\ UNCHANGED teams0

\* config.teams.set(team_list) completes; return return_team.
get_team_set(p) ==
    /\ teamCalls[p].pc = "config_set"
    /\ teams' = StoredTeams(teamCalls[p].team_list)
    /\ teamCalls' = [teamCalls EXCEPT ![p].pc = "done", ![p].writes = @ + 1,
                                      ![p].ret = teamCalls[p].team]
    /\ requested' = requested \cup {teamCalls[p].team}
    /\ UNCHANGED teams0

\* The caller takes the result; the slot is free for the next call.
get_team_return(p) ==
    /\ teamCalls[p].pc = "done"
    /\ teamCalls' = [teamCalls EXCEPT ![p] = IdleTeamCall]
    /\ UNCHANGED <<teams, teams0, requested>>

(***************************************************************************)
(* get_channel_obj                                                         *)
(***************************************************************************)
MaxChannels == 1
MaxGuilds == 2

ChannelIds == 1..MaxChannels
Guilds == 1..MaxGuilds

\* The guild a channel id belongs to (channel.guild.id); it never changes.
GuildOf(channel_id) == ((channel_id - 1) % MaxGuilds) + 1

\* A channel's stored data: whether anything is stored for it, and guild_id
\* (0: missing).
ClearedConfig == [stored |-> FALSE, guild_id |-> 0]

NoChannelCall == [channel_id |-> 0, guild_id |-> 0, ret |-> "None", guild_id_set |-> 0,
                  cleared |-> FALSE, before |-> ClearedConfig]

ChannelInit ==
    /\ chan_kind \in [ChannelIds -> {"text", "thread", "none"}]
    /\ bot_guilds \in SUBSET Guilds
    /\ chan_config \in [ChannelIds ->
                          {[stored |-> TRUE, guild_id |-> g] : g \in {0} \cup Guilds}]
    /\ lastChannelCall = NoChannelCall

ChannelIdle ==
    /\ chan_kind = [c \in ChannelIds |-> "none"]
    /\ bot_guilds = {}
    /\ chan_config = [c \in ChannelIds |-> ClearedConfig]
    /\ lastChannelCall = NoChannelCall

\* bot.get_channel(channel_id): the channel or thread, in a guild of the bot.
bot_get_channel(channel_id) ==
    IF GuildOf(channel_id) \in bot_guilds THEN chan_kind[channel_id] ELSE "none"

\* guild.get_channel(channel_id)
guild_get_channel(guild, channel_id) ==
    IF GuildOf(channel_id) = guild /\ chan_kind[channel_id] = "text" THEN "text" ELSE "none"

\* guild.get_thread(channel_id)
guild_get_thread(guild, channel_id) ==
    IF GuildOf(channel_id) = guild /\ chan_kind[channel_id] = "thread" THEN "thread" ELSE "none"

\* get_channel_obj returning the channel without storing its guild id.
channel_obj_no_guild_set(channel_id, guild_id) ==
    IF guild_id = 0
    THEN IF bot_get_channel(channel_id) = "none"
         THEN [ret |-> "None", guild_id_set |-> 0, cleared |-> TRUE]
         ELSE [ret |-> bot_get_channel(channel_id), guild_id_set |-> 0, cleared |-> FALSE]
    ELSE IF guild_id \notin bot_guilds
         THEN [ret |-> "None", guild_id_set |-> 0, cleared |-> TRUE]
         ELSE IF /\ guild_get_channel(guild_id, channel_id) = "none"
                 /\ guild_get_thread(guild_id, channel_id) = "none"
              THEN [ret |-> "None", guild_id_set |-> 0, cleared |-> TRUE]
              ELSE [ret |-> IF guild_get_channel(guild_id, channel_id) # "none"
                            THEN "text" ELSE "thread",
                    guild_id_set |-> 0, cleared |-> FALSE]

\* get_channel_obj looking only for a channel, not for a thread.
channel_obj_no_thread(channel_id, guild_id) ==
    IF guild_id = 0
    THEN IF bot_get_channel(channel_id) = "none"
         THEN [ret |-> "None", guild_id_set |-> 0, cleared |-> TRUE]
         ELSE [ret |-> bot_get_channel(channel_id),
               guild_id_set |-> GuildOf(channel_id), cleared |-> FALSE]
    ELSE IF guild_id \notin bot_guilds
         THEN [ret |-> "None", guild_id_set |-> 0, cleared |-> TRUE]
         ELSE IF guild_get_channel(guild_id, channel_id) = "none"
              THEN [ret |-> "None", guild_id_set |-> 0, cleared |-> TRUE]
              ELSE [ret |-> "text", guild_id_set |-> 0, cleared |-> FALSE]

\* The body of get_channel_obj: what it returns, the guild id it stores
\* (0: none) and whether it clears the channel's config.
channel_obj(channel_id, guild_id) ==
    IF guild_id = 0
    THEN IF bot_get_channel(channel_id) = "none"
         THEN [ret |-> "None", guild_id_set |-> 0, cleared |-> TRUE]
         ELSE [ret |-> bot_get_channel(channel_id),
               guild_id_set |-> GuildOf(channel_id), cleared |-> FALSE]
    ELSE IF guild_id \notin bot_guilds
         THEN [ret |-> "None", guild_id_set |-> 0, cleared |-> TRUE]
         ELSE IF /\ guild_get_channel(guild_id, channel_id) = "none"
                 /\ guild_get_thread(guild_id, channel_id) = "none"
              THEN [ret |-> "None", guild_id_set |-> 0, cleared |-> TRUE]
              ELSE [ret |-> IF guild_get_channel(guild_id, channel_id) # "none"
                            THEN "text" ELSE "thread",
                    guild_id_set |-> 0, cleared |-> FALSE]

\* get_channel_obj(bot, channel_id, data), data["guild_id"] = guild_id.
get_channel_obj(channel_id, guild_id) ==
    LET r == channel_obj(channel_id, guild_id)
    IN  /\ chan_config' =
              IF r.cleared
              THEN [chan_config EXCEPT ![channel_id] = ClearedConfig]
              ELSE IF r.guild_id_set # 0
              THEN [chan_config EXCEPT ![channel_id] =
                       [stored |-> TRUE, guild_id |-> r.guild_id_set]]
              ELSE chan_config
        /\ lastChannelCall' = [channel_id |-> channel_id, guild_id |-> guild_id,
                               ret |-> r.ret, guild_id_set |-> r.guild_id_set,
                               cleared |-> r.cleared, before |-> chan_config[channel_id]]
        /\ UNCHANGED <<chan_kind, bot_guilds>>

\* The channel or thread is deleted on Discord.
DeleteChannel(channel_id) ==
    /\ chan_kind[channel_id] # "none"
    /\ chan_kind' = [chan_kind EXCEPT ![channel_id] = "none"]
    /\ lastChannelCall' = NoChannelCall
    /\ UNCHANGED <<bot_guilds, chan_config>>

\* The bot leaves a guild, or is removed from it.
LeaveGuild(guild) ==
    /\ guild \in bot_guilds
    /\ bot_guilds' = bot_guilds \ {guild}
    /\ lastChannelCall' = NoChannelCall
    /\ UNCHANGED <<chan_kind, chan_config>>

(***************************************************************************)
(* get_team_role                                                           *)
(*                                                                         *)
(* A name is the sequence of its words; `a in b` is a run of b's words.    *)
(***************************************************************************)
MaxRoles == 2

RoleIds == 1..MaxRoles

MontrealAccented == <<"Montréal", "Canadiens">>
MontrealPlain == <<"Montreal", "Canadiens">>

RoleNames == {MontrealPlain, MontrealAccented, <<"Montreal", "Canadiens", "Fans">>,
              <<"Boston", "Bruins">>}

RoleTeams == {MontrealAccented, <<"Boston", "Bruins">>, <<"Dallas", "Stars">>}

\* Python's `sub in text`
contains(sub, text) ==
    \E i \in 1..(Len(text) - Len(sub) + 1) : SubSeq(text, i, i + Len(sub) - 1) = sub

\* role.mention
mention(role) == [kind |-> "mention", id |-> role.id, name |-> <<>>]

\* A team name returned as it came.
plain(team) == [kind |-> "name", id |-> 0, name |-> team]

NoRole == [kind |-> "None", id |-> 0, name |-> <<>>]

NoRoleCall == [called |-> FALSE, home_team |-> <<>>, away_team |-> <<>>,
               home_role |-> NoRole, away_role |-> NoRole]

RolesInit ==
    /\ roles = <<>>
    /\ lastRoleCall = NoRoleCall

RolesIdle ==
    /\ roles = <<>>
    /\ lastRoleCall = NoRoleCall

\* The loop body keeping the first role it found.
role_for_first_match(team, role, found) ==
    IF found # NoRole
    THEN found
    ELSE IF contains(MontrealAccented, team) /\ contains(MontrealPlain, role.name)
    THEN mention(role)
    ELSE IF role.name = team
    THEN mention(role)
    ELSE found

\* One side of the loop body: the if / elif on a role.
role_for(team, role, found) ==
    IF contains(MontrealAccented, team) /\ contains(MontrealPlain, role.name)
    THEN mention(role)
    ELSE IF role.name = team
    THEN mention(role)
    ELSE found

\* for role in guild.roles: ..., from index i on.
RECURSIVE role_loop(_, _, _, _, _)
role_loop(i, home_team, away_team, home_role, away_role) ==
    IF i > Len(roles)
    THEN <<home_role, away_role>>
    ELSE role_loop(i + 1, home_team, away_team,
                   role_for(home_team, roles[i], home_role),
                   role_for(away_team, roles[i], away_role))

\* get_team_role(guild, home_team, away_team)
get_team_role(home_team, away_team) ==
    LET found == role_loop(1, home_team, away_team, NoRole, NoRole)
    IN  /\ lastRoleCall' =
              [called |-> TRUE, home_team |-> home_team, away_team |-> away_team,
               home_role |-> IF found[1] = NoRole THEN plain(home_team) ELSE found[1],
               away_role |-> IF found[2] = NoRole THEN plain(away_team) ELSE found[2]]
        /\ UNCHANGED roles

\* A role is created in the guild.
CreateRole(id, name) ==
    /\ Len(roles) < MaxRoles
    /\ \A i \in 1..Len(roles) : roles[i].id # id
    /\ roles' = Append(roles, [id |-> id, name |-> name])
    /\ lastRoleCall' = NoRoleCall

\* A role is deleted from the guild.
DeleteRole(i) ==
    /\ i \in 1..Len(roles)
    /\ roles' = SubSeq(roles, 1, i - 1) \o SubSeq(roles, i + 1, Len(roles))
    /\ lastRoleCall' = NoRoleCall

(***************************************************************************)
(* TeamFinder.convert                                                      *)
(*                                                                         *)
(* Strings are sequences of one-character strings, so that `in`, split()   *)
(* and the \b...\b patterns are computed on characters.                    *)
(***************************************************************************)
MaxTokens == 2

Letters == {"a", "b", "c", "d", "e", "h", "i", "l", "m", "n", "o", "r", "s", "t", "u", "z",
            "A", "B", "D", "L", "O", "S", "T"}

\* \w
is_word_char(ch) == ch \in Letters

\* str.lower(), as flags=re.I compares
lower_char(ch) ==
    CASE ch = "A" -> "a" [] ch = "B" -> "b" [] ch = "D" -> "d" [] ch = "L" -> "l"
      [] ch = "O" -> "o" [] ch = "S" -> "s" [] ch = "T" -> "t" [] OTHER -> ch

lower(text) == [i \in 1..Len(text) |-> lower_char(text[i])]

\* str.split(): the runs between blanks
RECURSIVE split_from(_, _, _)
split_from(text, i, word) ==
    IF i > Len(text)
    THEN IF word = <<>> THEN <<>> ELSE <<word>>
    ELSE IF text[i] = " "
    THEN (IF word = <<>> THEN <<>> ELSE <<word>>) \o split_from(text, i + 1, <<>>)
    ELSE split_from(text, i + 1, Append(word, text[i]))

split(text) == split_from(text, 1, <<>>)

\* \b after the k-th character of text (k = 0: before the first)
word_boundary(text, k) ==
    LET before == k >= 1 /\ is_word_char(text[k])
        after == k < Len(text) /\ is_word_char(text[k + 1])
    IN  before # after

\* re.compile(r"\bALT\b", flags=re.I).findall(text) is not empty
finds(alt, text) ==
    \E i \in 1..(Len(text) - Len(alt) + 1) :
        /\ lower(SubSeq(text, i, i + Len(alt) - 1)) = lower(alt)
        /\ word_boundary(text, i - 1)
        /\ word_boundary(text, i + Len(alt) - 1)

Team == <<"T", "e", "a", "m">>
All == <<"a", "l", "l">>

\* constants.TEAMS, in the order of its keys: an active team with a
\* nickname, an active team whose name holds "all", a team that is no
\* longer active, and an all-star "Team ..." entry.
TEAMS == <<
    [team |-> <<"B", "o", "s", "t", "o", "n", " ", "B", "r", "u", "i", "n", "s">>,
     tri_code |-> <<"B", "O", "S">>, nickname |-> <<<<"B", "s">>>>, active |-> TRUE],
    [team |-> <<"D", "a", "l", "l", "a", "s", " ", "S", "t", "a", "r", "s">>,
     tri_code |-> <<"D", "A", "L">>, nickname |-> <<>>, active |-> TRUE],
    [team |-> <<"A", "t", "l", "a", "n", "t", "a", " ", "T", "h", "r", "a", "s", "h", "e", "r", "s">>,
     tri_code |-> <<"A", "T", "L">>, nickname |-> <<>>, active |-> FALSE],
    [team |-> <<"T", "e", "a", "m", " ", "A", "t", "l", "a", "n", "t", "i", "c">>,
     tri_code |-> <<"T", "A", "T">>, nickname |-> <<>>, active |-> TRUE] >>

Commands == {"setup", "add", "roster", "games"}

\* What a user types between blanks.
Tokens == {<<"B", "O", "S">>, <<"b", "r", "u", "i", "n", "s">>, <<"D", "a", "l", "l", "a", "s">>, <<"a", "l", "l">>, <<"A", "T", "L">>,
           <<"t", "h", "r", "a", "s", "h", "e", "r", "s">>, <<"A", "t", "l", "a", "n", "t", "i", "c">>, <<"b", "s", "!">>, <<"z", "B", "O", "S">>, <<"h", "a", "l", "l">>}

RECURSIVE join(_)
join(tokens) ==
    IF tokens = <<>> THEN <<>>
    ELSE IF Len(tokens) = 1 THEN tokens[1]
    ELSE tokens[1] \o <<" ">> \o join(Tail(tokens))

Arguments == {join(ts) : ts \in UNION {[1..n -> Tokens] : n \in 0..MaxTokens}}

NoConvert == [via |-> "none", command |-> "", argument |-> <<>>, raised |-> FALSE,
              value |-> <<>>]

\* A call is about to be made: its command and argument are given.
FinderInit ==
    \E command \in Commands, argument \in Arguments :
        lastConvert = [NoConvert EXCEPT !.command = command, !.argument = argument]

FinderIdle == lastConvert = NoConvert

\* The alternatives of the pattern built for one team: tri_code, the words
\* of the key and the nicknames, each between \b and \b.
alternatives(entry) ==
    {entry.tri_code} \cup {split(entry.team)[i] : i \in 1..Len(split(entry.team))}
        \cup {entry.nickname[i] : i \in 1..Len(entry.nickname)}

\* The loop body without the skip of "Team ..." keys.
team_added_with_all_star(entry, include_inactive, potential_teams) ==
    /\ include_inactive \/ entry.active
    /\ \E k \in 1..Len(potential_teams) :
          \E alt \in alternatives(entry) : finds(alt, potential_teams[k])

\* The loop body for one TEAMS item: whether it is added to result.
team_added(entry, include_inactive, potential_teams) ==
    /\ ~contains(Team, entry.team)
    /\ include_inactive \/ entry.active
    /\ \E k \in 1..Len(potential_teams) :
          \E alt \in alternatives(entry) : finds(alt, potential_teams[k])

\* for team, data in TEAMS.items(): ..., from item i on.
RECURSIVE teams_loop(_, _, _, _)
teams_loop(i, include_inactive, potential_teams, result) ==
    IF i > Len(TEAMS)
    THEN result
    ELSE teams_loop(i + 1, include_inactive, potential_teams,
                    IF team_added(TEAMS[i], include_inactive, potential_teams)
                    THEN result \cup {TEAMS[i].team} ELSE result)

\* The set `result` of TeamFinder.convert before it picks from it.
convert_result(command, argument) ==
    LET include_all == command \in {"setup", "add"}
        include_inactive == command \in {"roster"}
        result == teams_loop(1, include_inactive, split(argument), {})
    IN  IF include_all /\ contains(All, argument) THEN result \cup {All} ELSE result

\* The end of convert: BadArgument on an empty set, else list(result)[0],
\* whose choice among several members is the set's iteration order.
Converted(via, command, argument) ==
    LET result == convert_result(command, argument)
    IN  IF result = {}
        THEN lastConvert' = [via |-> via, command |-> command, argument |-> argument,
                             raised |-> TRUE, value |-> <<>>]
        ELSE \E value \in result :
                lastConvert' = [via |-> via, command |-> command, argument |-> argument,
                                raised |-> FALSE, value |-> value]

\* TeamFinder.convert(ctx, argument), ctx.command.name = command
TeamFinder_convert ==
    /\ lastConvert.via = "none"
    /\ Converted("convert", lastConvert.command, lastConvert.argument)

\* TeamFinder.transform(interaction, argument): convert on the interaction's context
TeamFinder_transform ==
    /\ lastConvert.via = "none"
    /\ Converted("transform", lastConvert.command, lastConvert.argument)

(***************************************************************************)
(* The specifications: one per piece of state, the others left alone.      *)
(***************************************************************************)
notMenu == <<playerVars, teamVars, chanVars, roleVars, finderVars>>
notPlayers == <<menuVars, teamVars, chanVars, roleVars, finderVars>>
notTeams == <<menuVars, playerVars, chanVars, roleVars, finderVars>>
notChannel == <<menuVars, playerVars, teamVars, roleVars, finderVars>>
notRoles == <<menuVars, playerVars, teamVars, chanVars, finderVars>>
notFinder == <<menuVars, playerVars, teamVars, chanVars, roleVars>>

InitMenu == MenuInit /\ PlayersIdle /\ TeamsIdle /\ ChannelIdle /\ RolesIdle /\ FinderIdle
NextMenu ==
    \/ \E user \in Users : ForwardButton(user) /\ UNCHANGED notMenu
    \/ \E user \in Users : BackButton(user) /\ UNCHANGED notMenu
    \/ \E user \in Users : FirstItemButton(user) /\ UNCHANGED notMenu
    \/ \E user \in Users : LastItemButton(user) /\ UNCHANGED notMenu
    \/ \E user \in Users : StopButton(user) /\ UNCHANGED notMenu
SpecMenu == InitMenu /\ [][NextMenu]_vars

\* One call at a time: a call begins only when none is in flight.
NoCallInFlight == \A q \in Procs : calls[q].pc = "idle"

InitPlayers == PlayersInit /\ MenuIdle /\ TeamsIdle /\ ChannelIdle /\ RolesIdle /\ FinderIdle
\* Calls interleave at their await points.
NextPlayers ==
    \/ \E p \in Procs : PlayerFinder_begin(p) /\ UNCHANGED notPlayers
    \/ \E p \in Procs : PlayerFinder_check(p) /\ UNCHANGED notPlayers
    \/ \E p \in Procs : PlayerFinder_get_ok(p) /\ UNCHANGED notPlayers
    \/ \E p \in Procs : PlayerFinder_get_fail(p) /\ UNCHANGED notPlayers
    \/ \E p \in Procs : PlayerFinder_json_ok(p) /\ UNCHANGED notPlayers
    \/ \E p \in Procs : PlayerFinder_json_fail(p) /\ UNCHANGED notPlayers
    \/ \E p \in Procs : PlayerFinder_set(p) /\ UNCHANGED notPlayers
    \/ \E p \in Procs : PlayerFinder_read(p) /\ UNCHANGED notPlayers
    \/ \E p \in Procs : PlayerFinder_return(p) /\ UNCHANGED notPlayers
    \/ Tick /\ UNCHANGED notPlayers
SpecPlayers == InitPlayers /\ [][NextPlayers]_vars

InitPlayersSeq == PlayersInit /\ MenuIdle /\ TeamsIdle /\ ChannelIdle /\ RolesIdle /\ FinderIdle
NextPlayersSeq ==
    \/ \E p \in Procs : NoCallInFlight /\ PlayerFinder_begin(p) /\ UNCHANGED notPlayers
    \/ \E p \in Procs : PlayerFinder_check(p) /\ UNCHANGED notPlayers
    \/ \E p \in Procs : PlayerFinder_get_ok(p) /\ UNCHANGED notPlayers
    \/ \E p \in Procs : PlayerFinder_get_fail(p) /\ UNCHANGED notPlayers
    \/ \E p \in Procs : PlayerFinder_json_ok(p) /\ UNCHANGED notPlayers
    \/ \E p \in Procs : PlayerFinder_json_fail(p) /\ UNCHANGED notPlayers
    \/ \E p \in Procs : PlayerFinder_set(p) /\ UNCHANGED notPlayers
    \/ \E p \in Procs : PlayerFinder_read(p) /\ UNCHANGED notPlayers
    \/ \E p \in Procs : PlayerFinder_return(p) /\ UNCHANGED notPlayers
    \/ Tick /\ UNCHANGED notPlayers
    \/ RemoveFile /\ UNCHANGED notPlayers
SpecPlayersSeq == InitPlayersSeq /\ [][NextPlayersSeq]_vars

NoTeamCallInFlight == \A q \in TeamProcs : teamCalls[q].pc = "idle"

InitTeams == TeamsInit /\ MenuIdle /\ PlayersIdle /\ ChannelIdle /\ RolesIdle /\ FinderIdle
\* Calls interleave at their await points.
NextTeams ==
    \/ \E p \in TeamProcs, team \in TeamNames : get_team_begin(p, team) /\ UNCHANGED notTeams
    \/ \E p \in TeamProcs : get_team_read(p) /\ UNCHANGED notTeams
    \/ \E p \in TeamProcs : get_team_set_none(p) /\ UNCHANGED notTeams
    \/ \E p \in TeamProcs : get_team_set(p) /\ UNCHANGED notTeams
    \/ \E p \in TeamProcs : get_team_return(p) /\ UNCHANGED notTeams
SpecTeams == InitTeams /\ [][NextTeams]_vars

InitTeamsSeq == TeamsInit /\ MenuIdle /\ PlayersIdle /\ ChannelIdle /\ RolesIdle /\ FinderIdle
NextTeamsSeq ==
    \/ \E p \in TeamProcs, team \in TeamNames :
          NoTeamCallInFlight /\ get_team_begin(p, team) /\ UNCHANGED notTeams
    \/ \E p \in TeamProcs : get_team_read(p) /\ UNCHANGED notTeams
    \/ \E p \in TeamProcs : get_team_set_none(p) /\ UNCHANGED notTeams
    \/ \E p \in TeamProcs : get_team_set(p) /\ UNCHANGED notTeams
    \/ \E p \in TeamProcs : get_team_return(p) /\ UNCHANGED notTeams
SpecTeamsSeq == InitTeamsSeq /\ [][NextTeamsSeq]_vars

InitChannel == ChannelInit /\ MenuIdle /\ PlayersIdle /\ TeamsIdle /\ RolesIdle /\ FinderIdle
NextChannel ==
    \/ \E channel_id \in ChannelIds, guild_id \in {0} \cup Guilds :
          get_channel_obj(channel_id, guild_id) /\ UNCHANGED notChannel
    \/ \E channel_id \in ChannelIds : DeleteChannel(channel_id) /\ UNCHANGED notChannel
    \/ \E guild \in Guilds : LeaveGuild(guild) /\ UNCHANGED notChannel
SpecChannel == InitChannel /\ [][NextChannel]_vars

InitRoles == RolesInit /\ MenuIdle /\ PlayersIdle /\ TeamsIdle /\ ChannelIdle /\ FinderIdle
NextRoles ==
    \/ \E home_team \in RoleTeams, away_team \in RoleTeams :
          get_team_role(home_team, away_team) /\ UNCHANGED notRoles
    \/ \E id \in RoleIds, name \in RoleNames : CreateRole(id, name) /\ UNCHANGED notRoles
    \/ \E i \in RoleIds : DeleteRole(i) /\ UNCHANGED notRoles
SpecRoles == InitRoles /\ [][NextRoles]_vars

InitTeamFinder ==
    FinderInit /\ MenuIdle /\ PlayersIdle /\ TeamsIdle /\ ChannelIdle /\ RolesIdle
NextTeamFinder ==
    \/ TeamFinder_convert /\ UNCHANGED notFinder
    \/ TeamFinder_transform /\ UNCHANGED notFinder
SpecTeamFinder == InitTeamFinder /\ [][NextTeamFinder]_vars

(***************************************************************************)
(* The claims                                                              *)
(***************************************************************************)

\* C1: after an accepted press of Forward at page p of N the message shows,
\* and current_page is, p+1 if p+1 < N and 0 otherwise; after an accepted
\* press of Back, p-1 if p-1 >= 0 and N-1 otherwise.
C1_PageCycling ==
    (lastPress.allowed /\ lastPress.button \in {"forward", "back"}) =>
        LET N == max_pages
            p == lastPress.prev
            expected == IF lastPress.button = "forward"
                        THEN (IF p + 1 < N THEN p + 1 ELSE 0)
                        ELSE (IF p - 1 >= 0 THEN p - 1 ELSE N - 1)
        IN  /\ max_pages >= 1
            /\ shown_page = expected
            /\ current_page = expected

\* C1 witness: Back pressed on the first of several pages wrapped to the last.
C1_Witness ==
    /\ lastPress.allowed
    /\ lastPress.button = "back"
    /\ lastPress.prev = 0
    /\ max_pages >= 3
    /\ current_page = max_pages - 1

\* C2: an interaction is accepted exactly when its user is an owner or the
\* author, every other user gets the ephemeral refusal, and no step changes
\* current_page or stops the menu unless its user is an owner or the author.
C2_OnlyOwnersAndAuthor ==
    /\ [](lastPress.button # "none" =>
            /\ lastPress.allowed <=> (lastPress.user \in owner_ids \/ lastPress.user = author)
            /\ lastPress.allowed => lastPress.response = "callback"
            /\ ~lastPress.allowed => lastPress.response = "not_authorized_ephemeral")
    /\ [][(current_page' # current_page \/ stopped' # stopped) =>
            (lastPress'.user \in owner_ids \/ lastPress'.user = author)]_vars

\* C2 witness: a user who is neither owner nor author was refused, with
\* owners other than the author present.
C2_Witness ==
    /\ lastPress.button = "stop"
    /\ lastPress.response = "not_authorized_ephemeral"
    /\ lastPress.user \notin owner_ids
    /\ lastPress.user # author
    /\ owner_ids \ {author} # {}
    /\ ~stopped

\* The second the clock reading `now` lies in, in ticks.
WholeSecond(now) == (now \div TicksPerSecond) * TicksPerSecond

C4_SetsMissingGuildId ==
    LET r == lastChannelCall
        c == r.channel_id
    IN  c # 0 =>
            /\ (r.guild_id = 0 /\ GuildOf(c) \in bot_guilds /\ chan_kind[c] # "none") =>
                    /\ r.guild_id_set = GuildOf(c)
                    /\ chan_config[c] = [stored |-> TRUE, guild_id |-> GuildOf(c)]
                    /\ r.ret = chan_kind[c]
            /\ r.guild_id # 0 =>
                    /\ r.guild_id_set = 0
                    /\ ~r.cleared => chan_config[c] = r.before

\* C4 witness: a channel stored without guild id got its guild id stored.
C4_Witness ==
    /\ lastChannelCall.channel_id # 0
    /\ lastChannelCall.guild_id = 0
    /\ lastChannelCall.before = [stored |-> TRUE, guild_id |-> 0]
    /\ lastChannelCall.ret = "text"
    /\ chan_config[lastChannelCall.channel_id].guild_id = GuildOf(lastChannelCall.channel_id)

\* C5: the call returns None exactly when the channel cannot be resolved (no
\* guild_id and bot.get_channel fails, or the guild is not found, or the
\* guild has neither channel nor thread of that id); exactly then the
\* channel's config is cleared, and otherwise it is not.
C5_NoneIffUnresolvable ==
    LET r == lastChannelCall
        c == r.channel_id
        unresolvable ==
            \/ r.guild_id = 0 /\ ~(GuildOf(c) \in bot_guilds /\ chan_kind[c] # "none")
            \/ r.guild_id # 0 /\ r.guild_id \notin bot_guilds
            \/ /\ r.guild_id # 0
               /\ r.guild_id \in bot_guilds
               /\ ~(GuildOf(c) = r.guild_id /\ chan_kind[c] \in {"text", "thread"})
    IN  c # 0 =>
            /\ r.ret = "None" <=> unresolvable
            /\ r.ret # "None" => r.ret = chan_kind[c]
            /\ r.cleared <=> unresolvable
            /\ r.cleared => chan_config[c] = ClearedConfig
            /\ (~r.cleared /\ r.before.stored) => chan_config[c].stored

\* C5 witness: the guild was found but held no such channel or thread, and
\* the stored config was cleared.
C5_Witness ==
    /\ lastChannelCall.channel_id # 0
    /\ lastChannelCall.guild_id \in bot_guilds
    /\ lastChannelCall.ret = "None"
    /\ lastChannelCall.before.stored
    /\ chan_config[lastChannelCall.channel_id] = ClearedConfig

\* The roles that match a team name: the name itself, or for a name holding
\* "Montréal Canadiens" a role name holding "Montreal Canadiens".
MatchingRoles(team) ==
    {i \in 1..Len(roles) :
        \/ roles[i].name = team
        \/ contains(MontrealAccented, team) /\ contains(MontrealPlain, roles[i].name)}

RoleResultIs(team, result) ==
    IF MatchingRoles(team) = {}
    THEN result = plain(team)
    ELSE LET last == CHOOSE i \in MatchingRoles(team) : \A j \in MatchingRoles(team) : j <= i
         IN  result = [kind |-> "mention", id |-> roles[last].id, name |-> <<>>]

\* C6: each of the two results is the mention of the last matching role of
\* guild.roles, and the unchanged team name when no role matches.
C6_RoleMentionOrName ==
    lastRoleCall.called =>
        /\ RoleResultIs(lastRoleCall.home_team, lastRoleCall.home_role)
        /\ RoleResultIs(lastRoleCall.away_team, lastRoleCall.away_role)

\* C6 witness: two roles matched the accented Montréal name, one by the plain
\* spelling, and the away team had no role.
C6_Witness ==
    /\ lastRoleCall.called
    /\ lastRoleCall.home_team = MontrealAccented
    /\ Cardinality(MatchingRoles(lastRoleCall.home_team)) >= 2
    /\ roles[1].name = MontrealAccented
    /\ roles[2].name # MontrealAccented
    /\ lastRoleCall.home_role.kind = "mention"
    /\ lastRoleCall.home_role.id = roles[2].id
    /\ lastRoleCall.away_role.kind = "name"

\* C7: with calls one after another, a returned call leaves an entry of its
\* team in the stored list; an entry that existed is returned without a
\* write; otherwise exactly one entry is appended (to an empty list when the
\* store held None) in one write; and no name is ever stored twice.
C7_GetTeamOnce ==
    /\ NoDuplicates(teams.list)
    /\ \A p \in TeamProcs :
          LET c == teamCalls[p]
              existed == \E i \in 1..Len(c.pre.list) : c.pre.list[i].team_name = c.team
          IN  c.pc = "done" =>
                  /\ ~teams.is_none
                  /\ \E i \in 1..Len(teams.list) : teams.list[i].team_name = c.team
                  /\ c.ret = c.team
                  /\ existed => (c.writes = 0 /\ teams = c.pre)
                  /\ ~existed => /\ c.writes = 1
                                 /\ teams.list = Append(c.pre.list, [team_name |-> c.team])

\* C7 witness: a repeated call found the entry an earlier call had added to
\* a store that held None, and wrote nothing.
C7_Witness ==
    \E p \in TeamProcs :
        /\ teamCalls[p].pc = "done"
        /\ teamCalls[p].writes = 0
        /\ teams0.is_none
        /\ teamCalls[p].team \in requested
        /\ Len(teams.list) >= 2

\* The matched set as the claim words it.
MatchedSet(command, argument) ==
    {TEAMS[i].team : i \in
        {i \in 1..Len(TEAMS) :
            /\ ~contains(Team, TEAMS[i].team)
            /\ (TEAMS[i].active \/ command = "roster")
            /\ \E k \in 1..Len(split(argument)) :
                  \/ finds(TEAMS[i].tri_code, split(argument)[k])
                  \/ \E w \in 1..Len(split(TEAMS[i].team)) :
                        finds(split(TEAMS[i].team)[w], split(argument)[k])
                  \/ \E n \in 1..Len(TEAMS[i].nickname) :
                        finds(TEAMS[i].nickname[n], split(argument)[k])}}
    \cup (IF command \in {"setup", "add"} /\ contains(All, argument) THEN {All} ELSE {})

\* C8: convert raises BadArgument exactly when the matched set is empty, and
\* otherwise returns a member of it.
C8_ConvertReturnsMatch ==
    lastConvert.via # "none" =>
        /\ lastConvert.raised <=> MatchedSet(lastConvert.command, lastConvert.argument) = {}
        /\ ~lastConvert.raised =>
              lastConvert.value \in MatchedSet(lastConvert.command, lastConvert.argument)

\* C8 witness: for `setup`, an argument naming a team whose name holds "all"
\* returned "all" from a matched set of two.
C8_Witness ==
    /\ lastConvert.via = "convert"
    /\ lastConvert.command = "setup"
    /\ Cardinality(MatchedSet(lastConvert.command, lastConvert.argument)) = 2
    /\ ~contains(<<All>>, split(lastConvert.argument))
    /\ lastConvert.value = All

\* How many entries of the list bear the name.
EntriesOf(team, list) == Cardinality({i \in 1..Len(list) : list[i].team_name = team})

\* C9: once every get_team call has returned, the stored list holds exactly
\* one entry for every requested name, and every entry it held before.
C9_NoTeamLost ==
    (\A p \in TeamProcs : teamCalls[p].pc \in {"idle", "done"}) =>
        /\ \A team \in requested : EntriesOf(team, teams.list) = 1
        /\ \A i \in 1..Len(teams0.list) :
              EntriesOf(teams0.list[i].team_name, teams.list) = 1

\* C10: a call that skips the refresh reads a complete players.json, and a
\* refresh that failed has not stored a timestamp.
C10_CacheConsistent ==
    \A p \in Procs :
        LET c == calls[p]
        IN  /\ (c.pc \in {"done", "raised"} /\ ~c.http) => c.read = "complete"
            /\ (c.pc = "raised" /\ c.http /\ c.read = "none") => ~c.stored

====
